---- MODULE Spec2Model ----
(***************************************************************************)
(* isocodes: the in-memory lookup core of src/isocodes/__init__.py.        *)
(*                                                                         *)
(* A dataset (class ISO) is loaded once; afterwards callers run get, find, *)
(* search, the sorted views (by_<field>) and the index accessors           *)
(* (by_<field>_dict) against it.  Strings are sequences of code points, so *)
(* that str.lower, substring containment and lexicographic comparison are  *)
(* computed and not assumed.  A record object is referred to by its        *)
(* position in _namespace_records (object identity).                       *)
(*                                                                         *)
(* Specifications: Spec (one dataset, single calls), SpecSeq (a caller     *)
(* that keeps a result and comes back), SpecMut (a caller that writes to   *)
(* returned records), SpecFormer (the countries dataset with its           *)
(* former-name operations), SpecLoad (the construction of a dataset),      *)
(* SpecName (a caller that consumes the generators of name), SpecRecord    *)
(* (one record under a sequence of writes and attribute reads).            *)
(***************************************************************************)
EXTENDS Integers, Sequences, FiniteSets, TLC

VARIABLES
    data,               \* ISO.data: the parsed JSON list of dicts
    namespace_records,  \* ISO._namespace_records: one ISONamespaceRecord per item
    index_alpha_2,      \* ISO._index_alpha_2: value -> record
    index_alpha_3,      \* ISO._index_alpha_3
    index_name,         \* ISO._index_name
    index_numeric,      \* ISO._index_numeric
    pc,                 \* "idle": no call in progress; "done": a call has returned;
                        \* "start", "failed": before and after a failed __init__
    call,               \* the last call made: operation and arguments
    result,             \* what the last call returned or raised
    former,             \* the items of the resource file iso_3166-3.json
    loads,              \* per dataset key, how often its resource file was loaded
    held                \* the result or generator a caller kept from an earlier call

vars == <<data, namespace_records, index_alpha_2, index_alpha_3, index_name,
          index_numeric, pc, call, result, former, loads, held>>

-----------------------------------------------------------------------------
(* Bounds and input samples *)

\* Largest number of records in a loaded dataset.
MaxRecords == 2

\* The sample strings use the code points 65 "A", 66 "B" and 97 "a".
\* Field values occurring in the loaded data.
CodeVals == {<<65>>, <<97>>, <<65, 97>>, <<66>>}     \* "A", "a", "Aa", "B"
TypeVals == {<<65>>, <<97>>}                         \* "A", "a"

\* Strings passed as query values: "", "A", "a", "Aa", "aA", "B".
QueryStrs == {<<>>, <<65>>, <<97>>, <<65, 97>>, <<97, 65>>, <<66>>}


-----------------------------------------------------------------------------
(* Python strings *)

\* str.lower() on one code point (ASCII letters).
LowerChar(c) == IF c >= 65 /\ c <= 90 THEN c + 32 ELSE c

\* str.lower()
StrLower(s) == [i \in 1..Len(s) |-> LowerChar(s[i])]

\* needle in hay, for two strings: substring containment.
Contains(hay, needle) ==
    \E i \in 0..(Len(hay) - Len(needle)) :
        SubSeq(hay, i + 1, i + Len(needle)) = needle

\* a < b for two strings: lexicographic by code point.
RECURSIVE StrLess(_, _)
StrLess(a, b) ==
    IF b = <<>> THEN FALSE
    ELSE IF a = <<>> THEN TRUE
    ELSE IF a[1] # b[1] THEN a[1] < b[1]
    ELSE StrLess(Tail(a), Tail(b))

\* a <= b for two strings.
StrLeq(a, b) == ~StrLess(b, a)

-----------------------------------------------------------------------------
(* Python values that reach the query operations *)

Str(s) == [t |-> "str", s |-> s]
NoneV  == [t |-> "none", s |-> <<>>]
IntV   == [t |-> "int", s |-> <<>>]      \* a number, such as 123
ListV  == [t |-> "list", s |-> <<>>]     \* the list []
DictV  == [t |-> "dict", s |-> <<>>]     \* the mapping {}

\* hash(value) succeeds: lists and dicts are unhashable.
Hashable(value) == value.t \notin {"list", "dict"}

\* a == b for a value held by a record attribute and a query value.
PyEq(a, b) == a.t = "str" /\ b.t = "str" /\ a.s = b.s

\* What a call does: it returns a value or raises an exception.
Ret(v)   == [kind |-> "return", val |-> v]
Raise(e) == [kind |-> "raise", val |-> [t |-> "exception", name |-> e]]

None        == [t |-> "none"]
RecRef(i)   == [t |-> "record", ref |-> i]       \* the object _namespace_records[i]
NewRec(d)   == [t |-> "newrecord", dict |-> d]   \* a fresh ISONamespaceRecord(d)
RecList(rs) == [t |-> "list", refs |-> rs]       \* a list of record objects
EmptyDict   == [f \in {} |-> <<>>]

-----------------------------------------------------------------------------
(* ISONamespaceRecord: a dict with a SimpleNamespace beside it *)

\* ISONamespaceRecord(data): the dict part and the _namespace part.
ISONamespaceRecord(d) == [dict |-> d, namespace |-> d]

\* Public attributes every record object has because it is a dict: normal
\* attribute lookup finds these before __getattr__ is ever asked.
DictAttrs ==
    {"clear", "copy", "fromkeys", "get", "items", "keys", "pop", "popitem", "setdefault", "update", "values"}

\* The characters of an attribute name, for the repr of a bound method.
NameChars(name) ==
    CASE name = "clear" -> <<99, 108, 101, 97, 114>>
      [] name = "copy" -> <<99, 111, 112, 121>>
      [] name = "fromkeys" -> <<102, 114, 111, 109, 107, 101, 121, 115>>
      [] name = "get" -> <<103, 101, 116>>
      [] name = "items" -> <<105, 116, 101, 109, 115>>
      [] name = "keys" -> <<107, 101, 121, 115>>
      [] name = "pop" -> <<112, 111, 112>>
      [] name = "popitem" -> <<112, 111, 112, 105, 116, 101, 109>>
      [] name = "setdefault" -> <<115, 101, 116, 100, 101, 102, 97, 117, 108, 116>>
      [] name = "update" -> <<117, 112, 100, 97, 116, 101>>
      [] name = "values" -> <<118, 97, 108, 117, 101, 115>>

\* hasattr(record, name): a dict attribute, or an attribute of _namespace.
HasAttr(rec, name) == name \in DictAttrs \/ name \in DOMAIN rec.namespace

\* getattr(record, name), where hasattr(record, name): the dict's bound method
\* when the name is a dict attribute, else the namespace's value.
GetAttr(rec, name) ==
    IF name \in DictAttrs THEN [t |-> "method", s |-> NameChars(name)]
    ELSE Str(rec.namespace[name])

\* Addresses a record object may have (the hex digits in a repr).
Addresses == {<<55, 102, 50, 50, 48, 97, 100, 101, 99, 55, 49, 48>>, <<55, 102, 50, 50, 97, 97, 100, 101, 99, 55, 49, 48>>}

\* str(x) for an attribute value: a string is itself; a bound method prints as
\* "<built-in method NAME of ISONamespaceRecord object at 0xADDR>".
PyStr(x, addr) ==
    IF x.t = "str" THEN x.s
    ELSE <<60, 98, 117, 105, 108, 116, 45, 105, 110, 32, 109, 101, 116, 104, 111, 100, 32>> \o x.s \o <<32, 111, 102, 32, 73, 83, 79, 78, 97, 109, 101, 115, 112, 97, 99, 101, 82, 101, 99, 111, 114, 100, 32, 111, 98, 106, 101, 99, 116, 32, 97, 116, 32, 48, 120>> \o addr \o <<62>>

-----------------------------------------------------------------------------
(* ISO.__init__ and ISO._create_indexes *)

\* The fields a record of the loaded data may hold (two of ExtendedLanguage's:
\* alpha_2 is indexed at load, type is not).
DataFields == {"alpha_2", "type"}
FieldVals(f) == IF f = "alpha_2" THEN CodeVals ELSE TypeVals

\* The items json.load may deliver: non-empty dicts from field names to
\* strings; every field is optional.
DataRecords ==
    { r \in UNION { [S -> CodeVals \cup TypeVals] : S \in (SUBSET DataFields) \ {{}} } :
        \A f \in DOMAIN r : r[f] \in FieldVals(f) }

Datasets == UNION { [1..n -> DataRecords] : n \in 0..MaxRecords }

\* First-write-wins variant of IndexPut: an existing key is kept.
IndexPutKeepFirst(idx, key, ref) ==
    [v \in (DOMAIN idx) \cup {key} |-> IF v \in DOMAIN idx THEN idx[v] ELSE ref]

\* index[key] = record
IndexPut(idx, key, ref) ==
    [v \in (DOMAIN idx) \cup {key} |-> IF v = key THEN ref ELSE idx[v]]

\* One iteration of the loop of _create_indexes for one of the four indexes.
IndexStep(idx, rec, field, ref) ==
    IF HasAttr(rec, field) THEN IndexPut(idx, GetAttr(rec, field).s, ref) ELSE idx

\* The loop of _create_indexes over records i..Len(recs), for one index.
RECURSIVE BuildIndex(_, _, _, _)
BuildIndex(recs, field, i, idx) ==
    IF i > Len(recs) THEN idx
    ELSE BuildIndex(recs, field, i + 1, IndexStep(idx, recs[i], field, i))

CreateIndex(recs, field) == BuildIndex(recs, field, 1, EmptyDict)

-----------------------------------------------------------------------------
(* ISO.get *)

\* The positions 1..n as a list, for the comprehensions below.
Positions(n) == [i \in 1..n |-> i]

\* Variant of GetMatches that compares for equality instead of containment.
GetMatchesEqual(element, key, s) == key \in DOMAIN element /\ element[key] = s

\* The test of get's comprehension: key in element and value in element[key].
GetMatches(element, key, s) == key \in DOMAIN element /\ Contains(element[key], s)

\* Variant of GetRejects without the test for the empty string.
GetRejectsNoEmpty(value) == value.t = "none" \/ value.t # "str"

\* The values get turns away before it looks at the data: None, "", and
\* anything that is not a string.
GetRejects(value) ==
    \/ value.t = "none" \/ value = Str(<<>>)
    \/ value.t # "str"

\* Variant of Get that looks for an element matching every criterion.
GetEveryCriterion(kwargs) ==
    IF kwargs = <<>> \/ \E c \in DOMAIN kwargs : GetRejects(kwargs[c].v)
    THEN Ret(NewRec(EmptyDict))
    ELSE LET found == SelectSeq(Positions(Len(data)),
                          LAMBDA i : \A c \in DOMAIN kwargs :
                                        GetMatches(data[i], kwargs[c].k, kwargs[c].v.s))
         IN  IF found = <<>>
             THEN Ret(NewRec(EmptyDict))
             ELSE LET base_result == data[found[1]]
                      same == SelectSeq(Positions(Len(namespace_records)),
                                  LAMBDA j : namespace_records[j].dict = base_result)
                  IN  IF same # <<>> THEN Ret(RecRef(same[1]))
                      ELSE Ret(NewRec(base_result))

\* get(**kwargs), kwargs being the criteria in call order.
Get(kwargs) ==
    IF kwargs = <<>> THEN Ret(NewRec(EmptyDict))
    ELSE LET key   == kwargs[1].k
             value == kwargs[1].v
         IN  IF GetRejects(value) THEN Ret(NewRec(EmptyDict))
             ELSE LET found == SelectSeq(Positions(Len(data)),
                                   LAMBDA i : GetMatches(data[i], key, value.s))
                  IN  IF found = <<>>
                      THEN Ret(NewRec(EmptyDict))      \* IndexError, caught
                      ELSE LET base_result == data[found[1]]
                               same == SelectSeq(Positions(Len(namespace_records)),
                                           LAMBDA j : namespace_records[j].dict = base_result)
                           IN  IF same # <<>> THEN Ret(RecRef(same[1]))
                               ELSE Ret(NewRec(base_result))

-----------------------------------------------------------------------------
(* ISO.find *)

IndexedFields == {"alpha_2", "alpha_3", "name", "numeric"}

IndexFor(key) ==
    CASE key = "alpha_2" -> index_alpha_2
      [] key = "alpha_3" -> index_alpha_3
      [] key = "name"    -> index_name
      [] key = "numeric" -> index_numeric

\* value in index: hashing an unhashable value raises TypeError.
InIndex(value, idx) == value.t = "str" /\ value.s \in DOMAIN idx

\* The first loop of find, from criterion i on: the first criterion on an
\* indexed field whose value is a key of that index decides the result.
RECURSIVE FindIndexed(_, _)
FindIndexed(kwargs, i) ==
    IF i > Len(kwargs) THEN [kind |-> "miss"]
    ELSE LET key   == kwargs[i].k
             value == kwargs[i].v
         IN  IF key \in IndexedFields
             THEN IF ~Hashable(value) THEN Raise("TypeError")
                  ELSE IF InIndex(value, IndexFor(key))
                       THEN Ret(RecRef(IndexFor(key)[value.s]))
                       ELSE FindIndexed(kwargs, i + 1)
             ELSE FindIndexed(kwargs, i + 1)

\* The test of find's linear search: every criterion is an attribute of the
\* record and equal to the query value.
FindAll(rec, kwargs) ==
    \A i \in 1..Len(kwargs) :
        HasAttr(rec, kwargs[i].k) /\ PyEq(GetAttr(rec, kwargs[i].k), kwargs[i].v)

\* find(**kwargs)
Find(kwargs) ==
    IF kwargs = <<>> THEN Ret(None)
    ELSE LET r == FindIndexed(kwargs, 1)
         IN  IF r.kind # "miss" THEN r
             ELSE LET found == SelectSeq(Positions(Len(namespace_records)),
                                   LAMBDA j : FindAll(namespace_records[j], kwargs))
                  IN  IF found # <<>> THEN Ret(RecRef(found[1])) ELSE Ret(None)

-----------------------------------------------------------------------------
(* ISO.search *)

\* The inner loop of search for one record, from criterion i on: "match",
\* "nomatch" (break), or "raise" when value.lower() is not defined.
RECURSIVE SearchRecord(_, _, _, _)
SearchRecord(rec, addr, kwargs, i) ==
    IF i > Len(kwargs) THEN "match"
    ELSE LET key   == kwargs[i].k
             value == kwargs[i].v
         IN  IF ~HasAttr(rec, key) THEN "nomatch"
             ELSE IF value.t # "str" THEN "raise"
             ELSE IF ~Contains(StrLower(PyStr(GetAttr(rec, key), addr)), StrLower(value.s))
                  THEN "nomatch"
                  ELSE SearchRecord(rec, addr, kwargs, i + 1)

\* The outer loop of search from record j on, results being the list so far.
RECURSIVE SearchFrom(_, _, _, _)
SearchFrom(kwargs, addrs, j, results) ==
    IF j > Len(namespace_records) THEN Ret(RecList(results))
    ELSE LET m == SearchRecord(namespace_records[j], addrs[j], kwargs, 1)
         IN  IF m = "raise" THEN Raise("AttributeError")
             ELSE SearchFrom(kwargs, addrs, j + 1,
                             IF m = "match" THEN Append(results, j) ELSE results)

\* Variant of SearchGuard that never short-circuits.
SearchGuardNever(kwargs) == FALSE

\* The guard of search: no criteria, no results.
SearchGuard(kwargs) == kwargs = <<>>

\* search(**kwargs); addrs[j] is the address of record object j.
Search(kwargs, addrs) ==
    IF SearchGuard(kwargs) THEN Ret(RecList(<<>>))
    ELSE SearchFrom(kwargs, addrs, 1, <<>>)

-----------------------------------------------------------------------------
(* ISO._sorted_by_index and the by_<field> views *)

\* Variant of ViewPairs that reads the pairs off a last-write-wins dict keyed by
\* the value, so that records sharing a value collapse into one pair.
ViewPairsFromDict(index) ==
    LET has == SelectSeq(Positions(Len(namespace_records)),
                   LAMBDA j : /\ HasAttr(namespace_records[j], index)
                              /\ \A k \in (j + 1)..Len(namespace_records) :
                                    HasAttr(namespace_records[k], index)
                                    => GetAttr(namespace_records[k], index)
                                       # GetAttr(namespace_records[j], index))
    IN  [n \in 1..Len(has) |-> <<GetAttr(namespace_records[has[n]], index).s, has[n]>>]

\* The list comprehension: (getattr(record, index), record) for each record
\* that has the attribute, in dataset order.  A pair is <<value, record>>.
ViewPairs(index) ==
    LET has == SelectSeq(Positions(Len(namespace_records)),
                   LAMBDA j : HasAttr(namespace_records[j], index))
    IN  [n \in 1..Len(has) |-> <<GetAttr(namespace_records[has[n]], index).s, has[n]>>]

\* Variant of SortKey that ignores letter case.
SortKeyLower(p) == StrLower(p[1])

\* key=lambda x: x[0]
SortKey(p) == p[1]

\* sorted() is stable: an element goes after every element whose key is not
\* greater than its own.
RECURSIVE Insert(_, _)
Insert(sorted, p) ==
    IF sorted = <<>> THEN <<p>>
    ELSE IF StrLess(SortKey(p), SortKey(sorted[1])) THEN <<p>> \o sorted
    ELSE <<sorted[1]>> \o Insert(Tail(sorted), p)

RECURSIVE Sorted(_)
Sorted(pairs) ==
    IF pairs = <<>> THEN <<>>
    ELSE Insert(Sorted(SubSeq(pairs, 1, Len(pairs) - 1)), pairs[Len(pairs)])

\* _sorted_by_index(index)
SortedByIndex(index) == Ret([t |-> "pairs", items |-> Sorted(ViewPairs(index))])

\* by_alpha_2_dict, by_alpha_3_dict, by_name_dict, by_numeric_dict: a copy of
\* the index.
ByDict(field) == Ret([t |-> "dict", map |-> IndexFor(field)])

-----------------------------------------------------------------------------
(* Callers *)

\* Field names callers query by: an indexed data field, a data field that is
\* not indexed, a dict attribute that is no data field, and an indexed field no
\* record has.
QueryFields == {"alpha_2", "type", "keys", "numeric"}

QueryValues == { Str(s) : s \in QueryStrs } \cup {NoneV, IntV, ListV, DictV}

\* Fields and values of the calls with two criteria.
PairFields == {"alpha_2", "type"}
PairValues == {Str(<<65>>), Str(<<97>>), NoneV}

Criterion(k, v) == [k |-> k, v |-> v]

\* The keyword arguments of a call, in call order; keys are distinct.
Kwargs ==
    {<<>>}
    \cup { <<Criterion(k, v)>> : k \in QueryFields, v \in QueryValues }
    \cup UNION { { <<Criterion(k1, v1), Criterion(k2, v2)>> :
                       k2 \in PairFields \ {k1}, v1 \in PairValues, v2 \in PairValues } :
                   k1 \in PairFields }

\* The fields the classes define sorted views for, among the data's fields.
ViewFields == {"alpha_2", "type"}

MakeCall(op, kwargs, field) == [op |-> op, kwargs |-> kwargs, field |-> field]

NoCall == MakeCall("none", <<>>, "")
NoResult == [kind |-> "none", val |-> None]

\* The keys of the module-level instances, each loaded once at import.
ModuleKeys ==
    {"3166-1", "639-2", "4217", "3166-2", "3166-3", "639-3", "639-5", "15924"}

\* No container kept by the caller.
NoHeld == [acc |-> NoCall]

\* The process around one dataset: a former-countries file without items,
\* every module-level key loaded once, nothing kept by the caller.
InitProcess ==
    /\ former = <<>>
    /\ loads = [k \in ModuleKeys |-> 1]
    /\ held = NoHeld

\* The dataset itself and the process around it: no operation of ISO assigns
\* to them.
dataset == <<data, namespace_records, index_alpha_2, index_alpha_3, index_name,
             index_numeric, former, loads, held>>

\* The state after ISO(iso_key) has returned.
Init ==
    /\ InitProcess
    /\ data \in Datasets
    /\ namespace_records = [i \in 1..Len(data) |-> ISONamespaceRecord(data[i])]
    /\ index_alpha_2 = CreateIndex(namespace_records, "alpha_2")
    /\ index_alpha_3 = CreateIndex(namespace_records, "alpha_3")
    /\ index_name = CreateIndex(namespace_records, "name")
    /\ index_numeric = CreateIndex(namespace_records, "numeric")
    /\ pc = "idle"
    /\ call = NoCall
    /\ result = NoResult

DoGet ==
    /\ pc = "idle"
    /\ \E kwargs \in Kwargs :
        /\ call' = MakeCall("get", kwargs, "")
        /\ result' = Get(kwargs)
    /\ pc' = "done"
    /\ UNCHANGED dataset

DoFind ==
    /\ pc = "idle"
    /\ \E kwargs \in Kwargs :
        /\ call' = MakeCall("find", kwargs, "")
        /\ result' = Find(kwargs)
    /\ pc' = "done"
    /\ UNCHANGED dataset

DoSearch ==
    /\ pc = "idle"
    /\ \E kwargs \in Kwargs, addrs \in [1..Len(namespace_records) -> Addresses] :
        /\ call' = MakeCall("search", kwargs, "")
        /\ result' = Search(kwargs, addrs)
    /\ pc' = "done"
    /\ UNCHANGED dataset

DoSortedView ==
    /\ pc = "idle"
    /\ \E index \in ViewFields :
        /\ call' = MakeCall("sorted_by_index", <<>>, index)
        /\ result' = SortedByIndex(index)
    /\ pc' = "done"
    /\ UNCHANGED dataset

DoByDict ==
    /\ pc = "idle"
    /\ \E field \in IndexedFields :
        /\ call' = MakeCall("by_dict", <<>>, field)
        /\ result' = ByDict(field)
    /\ pc' = "done"
    /\ UNCHANGED dataset

\* The caller has taken the result; the next call may follow.
Return ==
    /\ pc = "done"
    /\ pc' = "idle"
    /\ call' = NoCall
    /\ result' = NoResult
    /\ UNCHANGED dataset

Next == DoGet \/ DoFind \/ DoSearch \/ DoSortedView \/ DoByDict \/ Return

Spec == Init /\ [][Next]_vars

-----------------------------------------------------------------------------
(* Vocabulary of the properties *)

\* The call op has returned or raised and its result is in result.
Called(op) == pc = "done" /\ call.op = op

\* R[field] for the record object at position i.
Rec(i) == namespace_records[i].dict

\* The results that stand for a lookup miss.
GetMiss    == Ret(NewRec(EmptyDict))
FindMiss   == Ret(None)
SearchMiss == Ret(RecList(<<>>))

ReturnedRecord == result.kind = "return" /\ result.val.t = "record"

\* Record i has data field f equal to / containing the string s.
FieldEquals(i, f, s)   == f \in DOMAIN data[i] /\ data[i][f] = s
FieldContains(i, f, s) == f \in DOMAIN data[i] /\ Contains(data[i][f], s)
FieldContainsNoCase(i, f, s) ==
    f \in DOMAIN data[i] /\ Contains(StrLower(data[i][f]), StrLower(s))

\* The smallest element of a non-empty set of positions.
First(S) == CHOOSE i \in S : \A j \in S : i <= j
Last(S)  == CHOOSE i \in S : \A j \in S : j <= i

-----------------------------------------------------------------------------
(* Properties of find, get and search *)

\* C1: for every field and every value v, find(field=v) returns a record R
\* with R[field] == v, or returns None exactly when no record of the dataset
\* has field equal to v.
C1_FindExact ==
    (Called("find") /\ Len(call.kwargs) = 1) =>
        LET f == call.kwargs[1].k
            v == call.kwargs[1].v
            holders == { i \in 1..Len(data) : v.t = "str" /\ FieldEquals(i, f, v.s) }
        IN  IF holders = {}
            THEN result = FindMiss
            ELSE /\ ReturnedRecord
                 /\ f \in DOMAIN Rec(result.val.ref)
                 /\ Rec(result.val.ref)[f] = v.s

\* The part of C1 that the code keeps: whenever find with one criterion
\* returns, it returns a record with R[field] == v, or None exactly when no
\* record has field equal to v.
FindExactWhenItReturns ==
    (Called("find") /\ Len(call.kwargs) = 1 /\ result.kind = "return") =>
        LET f == call.kwargs[1].k
            v == call.kwargs[1].v
            holders == { i \in 1..Len(data) : v.t = "str" /\ FieldEquals(i, f, v.s) }
        IN  IF holders = {}
            THEN result = FindMiss
            ELSE /\ ReturnedRecord
                 /\ f \in DOMAIN Rec(result.val.ref)
                 /\ Rec(result.val.ref)[f] = v.s

\* The records, in dataset order, that have every criterion's field as a data
\* field whose value contains the query string ignoring case.
SearchExpected(kwargs) ==
    SelectSeq(Positions(Len(data)),
        LAMBDA i : \A n \in 1..Len(kwargs) :
            FieldContainsNoCase(i, kwargs[n].k, kwargs[n].v.s))

AllStrings(kwargs) == \A n \in 1..Len(kwargs) : kwargs[n].v.t = "str"

\* C2: search with a non-empty set of criteria (query values being strings)
\* returns exactly the records, in dataset order, that have every criterion's
\* field as a data field whose value contains the query value as a
\* case-insensitive substring.
C2_SearchExactly ==
    (Called("search") /\ call.kwargs # <<>> /\ AllStrings(call.kwargs)) =>
        result = Ret(RecList(SearchExpected(call.kwargs)))

\* The part of C2 that the code keeps: the same, for criteria whose fields
\* are not attributes of the dict class.
SearchExactlyOnDataFields ==
    (/\ Called("search") /\ call.kwargs # <<>> /\ AllStrings(call.kwargs)
     /\ \A n \in 1..Len(call.kwargs) : call.kwargs[n].k \notin DictAttrs) =>
        result = Ret(RecList(SearchExpected(call.kwargs)))

\* C3: get with a single criterion field=value, value a non-empty string,
\* returns the first record in dataset order whose field contains value as a
\* case-sensitive substring (the empty record when there is none); a record
\* whose stored value differs from value only in letter case is not returned.
C3_GetFirstContaining ==
    (/\ Called("get") /\ Len(call.kwargs) = 1
     /\ call.kwargs[1].v.t = "str" /\ call.kwargs[1].v.s # <<>>) =>
        LET f == call.kwargs[1].k
            s == call.kwargs[1].v.s
            containing == { i \in 1..Len(data) : FieldContains(i, f, s) }
        IN  /\ IF containing = {} THEN result = GetMiss
               ELSE result = Ret(RecRef(First(containing)))
            /\ \A i \in 1..Len(data) :
                 (/\ f \in DOMAIN data[i]
                  /\ StrLower(data[i][f]) = StrLower(s)
                  /\ data[i][f] # s)
                 => result # Ret(RecRef(i))

\* get(alpha_2="a") passed over a record holding "A" and returned a later one
\* holding "Aa".
C3_Witness ==
    /\ Called("get") /\ call.kwargs = <<Criterion("alpha_2", Str(<<97>>))>>
    /\ Len(data) = 2
    /\ FieldEquals(1, "alpha_2", <<65>>)
    /\ FieldEquals(2, "alpha_2", <<65, 97>>)
    /\ result = Ret(RecRef(2))

\* C4: get returns the empty record, and raises nothing, when called with no
\* criteria, or when its (first) criterion has a value that is None, the
\* empty string or not a string, names a field no record has, or has a value
\* no record's field contains.
C4_GetEmptyRecord ==
    Called("get") =>
        ((\/ call.kwargs = <<>>
          \/ call.kwargs[1].v.t # "str"
          \/ call.kwargs[1].v.s = <<>>
          \/ \A i \in 1..Len(data) : call.kwargs[1].k \notin DOMAIN data[i]
          \/ \A i \in 1..Len(data) :
                ~FieldContains(i, call.kwargs[1].k, call.kwargs[1].v.s))
         => result = GetMiss)

\* get(alpha_2="") on a dataset whose first record has an alpha_2 returned
\* the empty record.
C4_Witness ==
    /\ Called("get") /\ call.kwargs = <<Criterion("alpha_2", Str(<<>>))>>
    /\ Len(data) >= 1 /\ "alpha_2" \in DOMAIN data[1]
    /\ result = GetMiss

\* C5: find, get and search never raise, whatever the field name and the
\* value (None, numbers, lists, mappings and the empty string included).
C5_NeverRaises ==
    (pc = "done" /\ call.op \in {"find", "get", "search"}) => result.kind = "return"

\* A criterion whose value is the empty string or not a string.
Malformed(c) == c.v.t # "str" \/ c.v.s = <<>>

\* C6: for get, find and search alike, a single criterion whose value is the
\* empty string or a non-string matches no record: the result is that of a
\* lookup miss (empty record for get, None for find, empty list for search).
C6_MalformedIsMiss ==
    (/\ pc = "done" /\ call.op \in {"find", "get", "search"}
     /\ Len(call.kwargs) = 1 /\ Malformed(call.kwargs[1])) =>
        result = CASE call.op = "get" -> GetMiss
                   [] call.op = "find" -> FindMiss
                   [] call.op = "search" -> SearchMiss

\* C7: search with empty criteria returns the empty list, never the full
\* record list.
C7_SearchNoCriteria ==
    (Called("search") /\ call.kwargs = <<>>) => result = SearchMiss

\* search() on a dataset of two records returned the empty list.
C7_Witness ==
    /\ Called("search") /\ call.kwargs = <<>>
    /\ Len(namespace_records) = 2
    /\ result = SearchMiss

-----------------------------------------------------------------------------
(* Properties of the sorted views and the indexes *)

ReturnedPairs == result.kind = "return" /\ result.val.t = "pairs"

\* C8: every sorted view is in non-decreasing lexicographic order of its
\* first component, and pairs with equal values are in dataset order.
C8_ViewSortedStable ==
    Called("sorted_by_index") =>
        /\ ReturnedPairs
        /\ LET items == result.val.items
           IN  \A m \in 1..Len(items), n \in 1..Len(items) :
                 m < n =>
                    /\ StrLeq(items[m][1], items[n][1])
                    /\ items[m][1] = items[n][1] => items[m][2] < items[n][2]

\* A view of two records whose order in the view is the reverse of their
\* order in the dataset, "B" sorting before "a".
C8_Witness ==
    /\ Called("sorted_by_index") /\ ReturnedPairs
    /\ Len(result.val.items) = 2
    /\ result.val.items[1] = <<(<<66>>), 2>>
    /\ result.val.items[2] = <<(<<97>>), 1>>

\* C9: the sorted view for field F is a permutation of exactly the records
\* that have F: each such record is in exactly one pair, every pair (v, R)
\* has R a record of items with R[F] == v, and records lacking F are absent.
C9_ViewIsPermutation ==
    Called("sorted_by_index") =>
        /\ ReturnedPairs
        /\ LET items == result.val.items
               F     == call.field
           IN  /\ \A n \in 1..Len(items) :
                    /\ items[n][2] \in 1..Len(namespace_records)
                    /\ F \in DOMAIN Rec(items[n][2])
                    /\ Rec(items[n][2])[F] = items[n][1]
               /\ \A j \in 1..Len(namespace_records) :
                    F \in DOMAIN Rec(j) =>
                       Cardinality({ n \in 1..Len(items) : items[n][2] = j }) = 1

\* A view over two records sharing the value of F, and a view that omits a
\* record lacking F.
C9_Witness ==
    /\ Called("sorted_by_index") /\ ReturnedPairs
    /\ Len(namespace_records) = 2
    /\ call.field \in DOMAIN Rec(1) /\ call.field \in DOMAIN Rec(2)
    /\ Rec(1)[call.field] = Rec(2)[call.field]
    /\ Len(result.val.items) = 2

\* What an index on field f must be: its keys are exactly the values of f
\* among the records, and each key maps to the last record holding it.
IndexIsLastWins(idx, f) ==
    /\ DOMAIN idx = { Rec(j)[f] : j \in { i \in 1..Len(namespace_records) : f \in DOMAIN Rec(i) } }
    /\ \A k \in DOMAIN idx :
         LET holders == { j \in 1..Len(namespace_records) :
                            f \in DOMAIN Rec(j) /\ Rec(j)[f] = k }
         IN  /\ idx[k] \in holders
             /\ idx[k] = Last(holders)

\* C10: each index built at load has as keys exactly the values of its field
\* among the records, skips records missing the field, maps each key to a
\* record whose field equals the key, the last such record in dataset order;
\* by_<field>_dict returns exactly that mapping.
C10_IndexLastWriteWins ==
    /\ \A f \in IndexedFields : IndexIsLastWins(IndexFor(f), f)
    /\ Called("by_dict") =>
         /\ result.kind = "return" /\ result.val.t = "dict"
         /\ IndexIsLastWins(result.val.map, call.field)

\* by_alpha_2_dict on two records sharing their alpha_2 maps it to the second.
C10_Witness ==
    /\ Called("by_dict") /\ call.field = "alpha_2"
    /\ Len(data) = 2
    /\ "alpha_2" \in DOMAIN data[1] /\ "alpha_2" \in DOMAIN data[2]
    /\ data[1]["alpha_2"] = data[2]["alpha_2"]
    /\ data[1] # data[2]
    /\ result.kind = "return"
    /\ result.val.map[data[1]["alpha_2"]] = 2


-----------------------------------------------------------------------------
(* A caller that keeps a result and comes back to the dataset *)

\* What a caller reads in a returned value: every record object stands for
\* its content, a comparison with == being a comparison of dicts.
Deep(v) ==
    CASE v.t = "record"    -> [t |-> "record", dict |-> namespace_records[v.ref].dict]
      [] v.t = "newrecord" -> [t |-> "record", dict |-> v.dict]
      [] v.t = "list"      ->
            [t |-> "list",
             items |-> [n \in DOMAIN v.refs |-> namespace_records[v.refs[n]].dict]]
      [] v.t = "pairs"     ->
            [t |-> "pairs",
             items |-> [n \in DOMAIN v.items |->
                          <<v.items[n][1], namespace_records[v.items[n][2]].dict>>]]
      [] v.t = "dict"      ->
            [t |-> "dict",
             map |-> [k \in DOMAIN v.map |-> namespace_records[v.map[k]].dict]]
      [] OTHER             -> v

\* Variant of RecordsAfterSortedView that sorts _namespace_records in place,
\* as list.sort would.
RecordsSortedInPlace(index) ==
    LET has  == SelectSeq(Positions(Len(namespace_records)),
                    LAMBDA j : HasAttr(namespace_records[j], index))
        rest == SelectSeq(Positions(Len(namespace_records)),
                    LAMBDA j : ~HasAttr(namespace_records[j], index))
        pairs == Sorted(ViewPairs(index))
    IN  [n \in 1..Len(pairs) |-> namespace_records[pairs[n][2]]]
        \o [n \in 1..Len(rest) |-> namespace_records[rest[n]]]

\* _namespace_records after _sorted_by_index(index): sorted() builds a new
\* list out of a new list of pairs, the records list is only read.
RecordsAfterSortedView(index) == namespace_records

\* Variant of ByDictAlias in which the accessor hands out the index itself.
ByDictAliasIndex(field) == field

\* The object a by_<field>_dict accessor returns: .copy() makes a new dict
\* ("fresh"), not the index of the field.
ByDictAlias(field) == "fresh"

\* The object a sorted view returns: the new list made by sorted().
ViewAlias(index) == "fresh"

\* The criteria a returning caller asks with.
SeqKwargs ==
    {<<Criterion("alpha_2", Str(<<65>>))>>, <<Criterion("type", Str(<<97>>))>>}

\* The index accessors a returning caller reads.
SeqDictFields == {"alpha_2", "numeric"}

SeqGet ==
    /\ pc = "idle"
    /\ \E kwargs \in SeqKwargs :
        /\ call' = MakeCall("get", kwargs, "")
        /\ result' = Get(kwargs)
    /\ pc' = "done"
    /\ UNCHANGED dataset

SeqFind ==
    /\ pc = "idle"
    /\ \E kwargs \in SeqKwargs :
        /\ call' = MakeCall("find", kwargs, "")
        /\ result' = Find(kwargs)
    /\ pc' = "done"
    /\ UNCHANGED dataset

SeqSearch ==
    /\ pc = "idle"
    /\ \E kwargs \in SeqKwargs, addrs \in [1..Len(namespace_records) -> Addresses] :
        /\ call' = MakeCall("search", kwargs, "")
        /\ result' = Search(kwargs, addrs)
    /\ pc' = "done"
    /\ UNCHANGED dataset

\* by_<index>: the pairs are built and sorted, the records list is what
\* _sorted_by_index leaves of it.
SeqSortedView ==
    /\ pc = "idle"
    /\ \E index \in ViewFields :
        /\ call' = MakeCall("sorted_by_index", <<>>, index)
        /\ result' = SortedByIndex(index)
        /\ namespace_records' = RecordsAfterSortedView(index)
    /\ pc' = "done"
    /\ UNCHANGED <<data, index_alpha_2, index_alpha_3, index_name, index_numeric,
                   former, loads, held>>

SeqByDict ==
    /\ pc = "idle"
    /\ \E field \in SeqDictFields :
        /\ call' = MakeCall("by_dict", <<>>, field)
        /\ result' = ByDict(field)
    /\ pc' = "done"
    /\ UNCHANGED dataset

\* The alias of the container a call returned: only the index accessors and
\* the sorted views return containers a caller edits.
AliasOf(c) ==
    CASE c.op = "by_dict"         -> ByDictAlias(c.field)
      [] c.op = "sorted_by_index" -> ViewAlias(c.field)
      [] OTHER                    -> "fresh"

\* The caller keeps the value a call returned, the first one it keeps.
KeepResult ==
    /\ pc = "done"
    /\ result.kind = "return"
    /\ held = NoHeld
    /\ held' = [acc |-> call, alias |-> AliasOf(call),
                original |-> Deep(result.val), content |-> Deep(result.val)]
    /\ pc' = "idle"
    /\ call' = NoCall
    /\ result' = NoResult
    /\ UNCHANGED <<data, namespace_records, index_alpha_2, index_alpha_3,
                   index_name, index_numeric, former, loads>>

\* The ways a caller edits a list or dict it holds.
Edits == {"remove", "add", "reverse"}

\* The key "Z" a caller adds an entry under.
AddedKey == <<90>>

\* The smallest key of a non-empty dict, the entry a caller removes.
FirstKey(map) == CHOOSE k \in DOMAIN map : \A m \in DOMAIN map : StrLeq(k, m)

\* A dict after del d[key].
DictRemove(map, key) == [k \in (DOMAIN map) \ {key} |-> map[k]]

\* A dict after d[key] = value.
DictAdd(map, key, value) ==
    [k \in (DOMAIN map) \cup {key} |-> IF k = key THEN value ELSE map[k]]

\* The container c, as the caller reads it, after the edit e: del c[0] or
\* del c[key], c.append((key, record)) or c[key] = record with one of the
\* dataset's records, c.reverse().
EditHeld(c, e) ==
    IF c.t = "pairs"
    THEN [c EXCEPT !.items =
            CASE e = "remove"  -> Tail(@)
              [] e = "add"     -> Append(@, <<AddedKey, namespace_records[1].dict>>)
              [] e = "reverse" -> [n \in DOMAIN @ |-> @[Len(@) + 1 - n]]]
    ELSE [c EXCEPT !.map =
            CASE e = "remove"  -> DictRemove(@, FirstKey(@))
              [] e = "add"     -> DictAdd(@, AddedKey, namespace_records[1].dict)
              [] e = "reverse" -> @]

\* The index idx after the same edit, when the container held is idx itself.
EditIndex(idx, e) ==
    CASE e = "remove"  -> DictRemove(idx, FirstKey(idx))
      [] e = "add"     -> DictAdd(idx, AddedKey, 1)
      [] e = "reverse" -> idx

\* The edit e is possible on the container c.
CanEdit(c, e) ==
    CASE e = "remove"  -> IF c.t = "pairs" THEN c.items # <<>> ELSE DOMAIN c.map # {}
      [] e = "add"     -> namespace_records # <<>>
      [] e = "reverse" -> c.t = "pairs" /\ Len(c.items) > 1

\* The index of field after an edit of the container held: it changes only
\* when the container is that very index.
IndexAfterEdit(field, e) ==
    IF held.alias = field THEN EditIndex(IndexFor(field), e) ELSE IndexFor(field)

\* The caller edits the list or dict it holds, once.
MutateHeld ==
    /\ pc = "idle"
    /\ held # NoHeld
    /\ held.content.t \in {"pairs", "dict"}
    /\ held.content = held.original
    /\ \E e \in Edits :
        /\ CanEdit(held.content, e)
        /\ held' = [held EXCEPT !.content = EditHeld(@, e)]
        /\ index_alpha_2' = IndexAfterEdit("alpha_2", e)
        /\ index_alpha_3' = IndexAfterEdit("alpha_3", e)
        /\ index_name' = IndexAfterEdit("name", e)
        /\ index_numeric' = IndexAfterEdit("numeric", e)
    /\ UNCHANGED <<data, namespace_records, pc, call, result, former, loads>>

NextSeq ==
    \/ SeqGet \/ SeqFind \/ SeqSearch \/ SeqSortedView \/ SeqByDict
    \/ KeepResult \/ MutateHeld \/ Return

\* A dataset and a caller that keeps results and comes back.
SpecSeq == Init /\ [][NextSeq]_vars

\* The dataset is as __init__ left it: one record object per loaded item, in
\* file order, and the four indexes as _create_indexes built them.
AsLoaded ==
    /\ namespace_records = [i \in DOMAIN data |-> ISONamespaceRecord(data[i])]
    /\ index_alpha_2 = CreateIndex(namespace_records, "alpha_2")
    /\ index_alpha_3 = CreateIndex(namespace_records, "alpha_3")
    /\ index_name = CreateIndex(namespace_records, "name")
    /\ index_numeric = CreateIndex(namespace_records, "numeric")

\* The call the caller kept the result of has been made again.
CalledAgain == held # NoHeld /\ pc = "done" /\ call = held.acc

\* The result kept came from a sorted view or an index accessor.
HeldAccessor == held # NoHeld /\ held.acc.op \in {"sorted_by_index", "by_dict"}

\* C11: accessing a sorted view or an index accessor twice on the same
\* dataset, with read-only queries in between, yields deep-equal results.
C11_AccessorIdempotent ==
    (HeldAccessor /\ held.content = held.original /\ CalledAgain) =>
        /\ result.kind = "return"
        /\ Deep(result.val) = held.original

\* A sorted view with two records in it has been read a second time.
C11_Witness ==
    /\ HeldAccessor /\ held.content = held.original /\ CalledAgain
    /\ call.op = "sorted_by_index"
    /\ Len(held.original.items) > 1

\* C12: the container a sorted view or an index accessor returns is a new
\* one: once the caller has added, removed or reordered its entries, the
\* dataset is still as loaded (so find, get and search answer as before) and
\* a later access to the same accessor equals the first one.
C12_FreshContainers ==
    (HeldAccessor /\ held.content # held.original) =>
        /\ AsLoaded
        /\ CalledAgain => (result.kind = "return" /\ Deep(result.val) = held.original)

\* An index accessor has been read again after the caller edited the dict it
\* got the first time.
C12_Witness ==
    /\ HeldAccessor /\ held.content # held.original /\ CalledAgain
    /\ call.op = "by_dict"
    /\ DOMAIN held.original.map # {}

-----------------------------------------------------------------------------
(* A caller that writes to what the dataset returned *)

\* The value "B" a caller writes.
Written == <<66>>

\* __setitem__: the dict entry is set and, _namespace existing, the
\* namespace attribute of the same name.
SetItem(rec, key, value) ==
    [dict |-> DictAdd(rec.dict, key, value),
     namespace |-> DictAdd(rec.namespace, key, value)]

\* __setattr__ with a public name: self[name] = value, then the namespace
\* attribute once more.
SetAttr(rec, name, value) ==
    LET r == SetItem(rec, name, value)
    IN  [r EXCEPT !.namespace = DictAdd(@, name, value)]

\* __delitem__ with a key of the dict: the entry goes and, if the namespace
\* has the attribute, the attribute.
DelItem(rec, key) ==
    [dict |-> DictRemove(rec.dict, key),
     namespace |-> IF key \in DOMAIN rec.namespace
                   THEN DictRemove(rec.namespace, key) ELSE rec.namespace]

\* update(other): the dict takes the entries of other, then every entry of
\* the dict is set on the namespace.
Update(rec, other) ==
    LET d == [k \in (DOMAIN rec.dict) \cup (DOMAIN other) |->
                IF k \in DOMAIN other THEN other[k] ELSE rec.dict[k]]
    IN  [dict |-> d,
         namespace |-> [k \in (DOMAIN rec.namespace) \cup (DOMAIN d) |->
                          IF k \in DOMAIN d THEN d[k] ELSE rec.namespace[k]]]

\* clear(): no entry and no namespace attribute is left.
Clear(rec) == [dict |-> EmptyDict, namespace |-> EmptyDict]

\* No caller has written to the records list or to a record yet.
Untouched == namespace_records = [i \in DOMAIN data |-> ISONamespaceRecord(data[i])]

\* The caller replaces the record object at position i by what a write made
\* of it; the list, data and the indexes hold the same objects as before.
WriteRecord(i, rec) ==
    /\ namespace_records' = [namespace_records EXCEPT ![i] = rec]
    /\ UNCHANGED <<data, index_alpha_2, index_alpha_3, index_name, index_numeric,
                   pc, call, result, former, loads, held>>

\* record[key] = "B" on a record the dataset returned.
RecordSetItem ==
    /\ pc = "idle" /\ Untouched
    /\ \E i \in DOMAIN namespace_records, key \in DataFields :
        WriteRecord(i, SetItem(namespace_records[i], key, Written))

\* record.name = "B" on a record the dataset returned.
RecordSetAttr ==
    /\ pc = "idle" /\ Untouched
    /\ \E i \in DOMAIN namespace_records, name \in DataFields :
        WriteRecord(i, SetAttr(namespace_records[i], name, Written))

\* del record[key] on a record the dataset returned, key being one it has.
RecordDelItem ==
    /\ pc = "idle" /\ Untouched
    /\ \E i \in DOMAIN namespace_records :
        \E key \in DOMAIN namespace_records[i].dict :
            WriteRecord(i, DelItem(namespace_records[i], key))

\* record.update({key: "B"}) on a record the dataset returned.
RecordUpdate ==
    /\ pc = "idle" /\ Untouched
    /\ \E i \in DOMAIN namespace_records, key \in DataFields :
        WriteRecord(i, Update(namespace_records[i], [k \in {key} |-> Written]))

\* record.clear() on a record the dataset returned.
RecordClear ==
    /\ pc = "idle" /\ Untouched
    /\ \E i \in DOMAIN namespace_records :
        WriteRecord(i, Clear(namespace_records[i]))

\* dataset.items.append(dataset.items[0]): items is _namespace_records
\* itself, so the dataset's own list grows.
ItemsAppend ==
    /\ pc = "idle" /\ Untouched
    /\ namespace_records # <<>>
    /\ namespace_records' = Append(namespace_records, namespace_records[1])
    /\ UNCHANGED <<data, index_alpha_2, index_alpha_3, index_name, index_numeric,
                   pc, call, result, former, loads, held>>

NextMut ==
    \/ SeqGet \/ SeqFind \/ SeqSearch \/ SeqSortedView \/ SeqByDict \/ Return
    \/ RecordSetItem \/ RecordSetAttr \/ RecordDelItem \/ RecordUpdate
    \/ RecordClear \/ ItemsAppend

\* A dataset and a caller that writes to the records and the list it got.
SpecMut == Init /\ [][NextMut]_vars

\* The contents of the records in a value as a caller reads it.
RecordsIn(v) ==
    CASE v.t = "record" -> {v.dict}
      [] v.t = "list"   -> { v.items[n] : n \in DOMAIN v.items }
      [] v.t = "pairs"  -> { v.items[n][2] : n \in DOMAIN v.items }
      [] v.t = "dict"   -> { v.map[k] : k \in DOMAIN v.map }
      [] OTHER          -> {}

\* The number of entries of a list or dict as a caller reads it.
Size(v) ==
    CASE v.t = "list"  -> Len(v.items)
      [] v.t = "pairs" -> Len(v.items)
      [] v.t = "dict"  -> Cardinality(DOMAIN v.map)
      [] OTHER         -> 0

\* The contents of the loaded records.
Loaded == { data[i] : i \in DOMAIN data }

\* C14: a loaded dataset is never mutated, whatever a caller does with the
\* records and the list the API returned: what a later find, get, search,
\* index accessor or sorted view returns is made of the loaded records, with
\* the content they were loaded with, and of no more entries than were loaded
\* (the empty record of a get that misses aside).
C14_NeverMutated ==
    (pc = "done" /\ result.kind = "return" /\ result # GetMiss) =>
        /\ RecordsIn(Deep(result.val)) \subseteq Loaded
        /\ Size(Deep(result.val)) <= Len(data)

\* An index accessor returns a record whose content a caller has replaced.
C14_WrittenRecordReturned ==
    /\ ~Untouched
    /\ Called("by_dict")
    /\ ~(RecordsIn(Deep(result.val)) \subseteq Loaded)

-----------------------------------------------------------------------------
(* Countries: the former-name tables *)

\* The code points of the string literals of Countries, of the sample files
\* and of the sample calls.
Txt(literal) ==
    CASE literal = "Swaziland" -> <<83, 119, 97, 122, 105, 108, 97, 110, 100>>
      [] literal = "SZ" -> <<83, 90>>
      [] literal = "SWZ" -> <<83, 87, 90>>
      [] literal = "Eswatini" -> <<69, 115, 119, 97, 116, 105, 110, 105>>
      [] literal = "2018-04-19" -> <<50, 48, 49, 56, 45, 48, 52, 45, 49, 57>>
      [] literal = "Name change, codes remained the same" ->
        <<78, 97, 109, 101, 32, 99, 104, 97, 110, 103, 101, 44, 32, 99,
          111, 100, 101, 115, 32, 114, 101, 109, 97, 105, 110, 101,
          100, 32, 116, 104, 101, 32, 115, 97, 109, 101>>
      [] literal = "BU" -> <<66, 85>>
      [] literal = "BUR" -> <<66, 85, 82>>
      [] literal = "MM" -> <<77, 77>>
      [] literal = "MMR" -> <<77, 77, 82>>
      [] literal = "ZR" -> <<90, 82>>
      [] literal = "ZAR" -> <<90, 65, 82>>
      [] literal = "CD" -> <<67, 68>>
      [] literal = "COD" -> <<67, 79, 68>>
      [] literal = "Socialist Republic of the Union of" ->
        <<83, 111, 99, 105, 97, 108, 105, 115, 116, 32, 82, 101, 112,
          117, 98, 108, 105, 99, 32, 111, 102, 32, 116, 104, 101, 32,
          85, 110, 105, 111, 110, 32, 111, 102>>
      [] literal = "Republic of" ->
        <<82, 101, 112, 117, 98, 108, 105, 99, 32, 111, 102>>
      [] literal = "Former country from ISO 3166-3: " ->
        <<70, 111, 114, 109, 101, 114, 32, 99, 111, 117, 110, 116, 114,
          121, 32, 102, 114, 111, 109, 32, 73, 83, 79, 32, 51, 49, 54,
          54, 45, 51, 58, 32>>
      [] literal = "Myanmar" -> <<77, 121, 97, 110, 109, 97, 114>>
      [] literal = "Congo, The Democratic Republic of the" ->
        <<67, 111, 110, 103, 111, 44, 32, 84, 104, 101, 32, 68, 101,
          109, 111, 99, 114, 97, 116, 105, 99, 32, 82, 101, 112, 117,
          98, 108, 105, 99, 32, 111, 102, 32, 116, 104, 101>>
      [] literal = "Burma, Socialist Republic of the Union of" ->
        <<66, 117, 114, 109, 97, 44, 32, 83, 111, 99, 105, 97, 108,
          105, 115, 116, 32, 82, 101, 112, 117, 98, 108, 105, 99, 32,
          111, 102, 32, 116, 104, 101, 32, 85, 110, 105, 111, 110, 32,
          111, 102>>
      [] literal = "BUMM" -> <<66, 85, 77, 77>>
      [] literal = "1989-12-05" -> <<49, 57, 56, 57, 45, 49, 50, 45, 48, 53>>
      [] literal = "Zaire, Republic of" ->
        <<90, 97, 105, 114, 101, 44, 32, 82, 101, 112, 117, 98, 108,
          105, 99, 32, 111, 102>>
      [] literal = "ZRCD" -> <<90, 82, 67, 68>>
      [] literal = "1997-07-14" -> <<49, 57, 57, 55, 45, 48, 55, 45, 49, 52>>
      [] literal = "CS" -> <<67, 83>>
      [] literal = "CSK" -> <<67, 83, 75>>
      [] literal = "CSHH" -> <<67, 83, 72, 72>>
      [] literal = "Czechoslovakia, Czechoslovak Socialist Republic" ->
        <<67, 122, 101, 99, 104, 111, 115, 108, 111, 118, 97, 107, 105,
          97, 44, 32, 67, 122, 101, 99, 104, 111, 115, 108, 111, 118,
          97, 107, 32, 83, 111, 99, 105, 97, 108, 105, 115, 116, 32,
          82, 101, 112, 117, 98, 108, 105, 99>>
      [] literal = "1993-01-01" -> <<49, 57, 57, 51, 45, 48, 49, 45, 48, 49>>
      [] literal = "Swaziland, Kingdom of" ->
        <<83, 119, 97, 122, 105, 108, 97, 110, 100, 44, 32, 75, 105,
          110, 103, 100, 111, 109, 32, 111, 102>>
      [] literal = "swaziland" -> <<115, 119, 97, 122, 105, 108, 97, 110, 100>>
      [] literal = "SWAZILAND" -> <<83, 87, 65, 90, 73, 76, 65, 78, 68>>
      [] literal = "Swazi" -> <<83, 119, 97, 122, 105>>
      [] literal = "Burma" -> <<66, 117, 114, 109, 97>>
      [] literal = "burma" -> <<98, 117, 114, 109, 97>>
      [] literal = "BURMA" -> <<66, 85, 82, 77, 65>>
      [] literal = "Bur" -> <<66, 117, 114>>
      [] literal = "Zaire" -> <<90, 97, 105, 114, 101>>
      [] literal = "Czechoslovakia" ->
        <<67, 122, 101, 99, 104, 111, 115, 108, 111, 118, 97, 107, 105,
          97>>
      [] literal = "Atlantis" -> <<65, 116, 108, 97, 110, 116, 105, 115>>
      [] literal = "socialist" -> <<115, 111, 99, 105, 97, 108, 105, 115, 116>>
      [] literal = "DD" -> <<68, 68>>
      [] literal = "DDR" -> <<68, 68, 82>>
      [] literal = "DDDE" -> <<68, 68, 68, 69>>
      [] literal = "GDR, German Democratic Republic" ->
        <<71, 68, 82, 44, 32, 71, 101, 114, 109, 97, 110, 32, 68, 101,
          109, 111, 99, 114, 97, 116, 105, 99, 32, 82, 101, 112, 117,
          98, 108, 105, 99>>
      [] literal = "1990-10-03" -> <<49, 57, 57, 48, 45, 49, 48, 45, 48, 51>>
      [] literal = "YU" -> <<89, 85>>
      [] literal = "YUG" -> <<89, 85, 71>>
      [] literal = "YUCS" -> <<89, 85, 67, 83>>
      [] literal = "Federal Republic of Yugoslavia" ->
        <<70, 101, 100, 101, 114, 97, 108, 32, 82, 101, 112, 117, 98,
          108, 105, 99, 32, 111, 102, 32, 89, 117, 103, 111, 115, 108,
          97, 118, 105, 97>>
      [] literal = "2003-07-14" -> <<50, 48, 48, 51, 45, 48, 55, 45, 49, 52>>

\* self._former_names_data: former names of countries that kept their codes.
FormerNamesData ==
    [k \in {Txt("Swaziland")} |->
        [f \in {"alpha_2", "alpha_3", "current_name", "change_date", "comment"} |->
            CASE f = "alpha_2"      -> Str(Txt("SZ"))
              [] f = "alpha_3"      -> Str(Txt("SWZ"))
              [] f = "current_name" -> Str(Txt("Eswatini"))
              [] f = "change_date"  -> Str(Txt("2018-04-19"))
              [] f = "comment"      -> Str(Txt("Name change, codes remained the same"))]]

\* self._code_mappings: former (alpha_2, alpha_3) to current (alpha_2, alpha_3).
CodeMappings ==
    [k \in {<<Txt("BU"), Txt("BUR")>>, <<Txt("ZR"), Txt("ZAR")>>} |->
        IF k = <<Txt("BU"), Txt("BUR")>> THEN <<Txt("MM"), Txt("MMR")>>
        ELSE <<Txt("CD"), Txt("COD")>>]

\* dict.get(key, default)
DictGet(d, key, default) == IF key \in DOMAIN d THEN d[key] ELSE default

\* s.startswith(prefix)
StartsWith(s, prefix) ==
    Len(prefix) <= Len(s) /\ SubSeq(s, 1, Len(prefix)) = prefix

\* bool(x) for what find returns: None is false, a record is a dict and is
\* true unless it is empty.
Truthy(res) ==
    /\ res.kind = "return"
    /\ res.val.t = "record"
    /\ DOMAIN namespace_records[res.val.ref].dict # {}

-----------------------------------------------------------------------------
(* Countries: sample data of iso_3166-1.json and iso_3166-3.json *)

\* A record of iso_3166-1.json with its codes and its name.
Country(alpha_2, alpha_3, name) ==
    [f \in {"alpha_2", "alpha_3", "name"} |->
        CASE f = "alpha_2" -> alpha_2 [] f = "alpha_3" -> alpha_3 [] f = "name" -> name]

\* Eswatini, Myanmar and the Democratic Republic of the Congo.
CountrySamples ==
    {Country(Txt("SZ"), Txt("SWZ"), Txt("Eswatini")),
     Country(Txt("MM"), Txt("MMR"), Txt("Myanmar")),
     Country(Txt("CD"), Txt("COD"), Txt("Congo, The Democratic Republic of the"))}

\* The files iso_3166-1.json of the model: up to MaxRecords countries, each
\* once, in any order.
CountryDatasets ==
    { d \in UNION { [1..n -> CountrySamples] : n \in 0..MaxRecords } :
        \A i, j \in DOMAIN d : d[i] = d[j] => i = j }

\* A record of iso_3166-3.json.
FormerCountry(alpha_2, alpha_3, alpha_4, name, withdrawal_date) ==
    [f \in {"alpha_2", "alpha_3", "alpha_4", "name", "withdrawal_date"} |->
        CASE f = "alpha_2" -> alpha_2 [] f = "alpha_3" -> alpha_3
          [] f = "alpha_4" -> alpha_4 [] f = "name" -> name
          [] f = "withdrawal_date" -> withdrawal_date]

\* Burma and Zaire, whose codes _code_mappings knows; Czechoslovakia, whose
\* codes it does not know; and three entries that a file could hold: Burma's
\* codes under a name that starts like a key of _former_names_data, the
\* German Democratic Republic under a name that starts with its abbreviation,
\* and Yugoslavia under a name that has "Republic of" before its end.
FormerSamples ==
    {FormerCountry(Txt("BU"), Txt("BUR"), Txt("BUMM"),
                   Txt("Burma, Socialist Republic of the Union of"), Txt("1989-12-05")),
     FormerCountry(Txt("ZR"), Txt("ZAR"), Txt("ZRCD"),
                   Txt("Zaire, Republic of"), Txt("1997-07-14")),
     FormerCountry(Txt("CS"), Txt("CSK"), Txt("CSHH"),
                   Txt("Czechoslovakia, Czechoslovak Socialist Republic"),
                   Txt("1993-01-01")),
     FormerCountry(Txt("BU"), Txt("BUR"), Txt("BUMM"),
                   Txt("Swaziland, Kingdom of"), Txt("1989-12-05")),
     FormerCountry(Txt("DD"), Txt("DDR"), Txt("DDDE"),
                   Txt("GDR, German Democratic Republic"), Txt("1990-10-03")),
     FormerCountry(Txt("YU"), Txt("YUG"), Txt("YUCS"),
                   Txt("Federal Republic of Yugoslavia"), Txt("2003-07-14"))}

MaxFormer == 2

\* The files iso_3166-3.json of the model: up to MaxFormer former countries,
\* each once, in any order.
FormerFiles ==
    { d \in UNION { [1..n -> FormerSamples] : n \in 0..MaxFormer } :
        \A i, j \in DOMAIN d : d[i] = d[j] => i = j }

\* The strings a caller passes as former_name.
FormerNameStrs ==
    {<<>>, Txt("Swaziland"), Txt("swaziland"), Txt("SWAZILAND"), Txt("Swazi"),
     Txt("Burma"), Txt("burma"), Txt("BURMA"), Txt("Bur"), Txt("Zaire"),
     Txt("Czechoslovakia"), Txt("Atlantis"), Txt("socialist")}

\* The values a caller passes as former_name: strings, None, 123, [].
FormerArgs == { Str(n) : n \in FormerNameStrs } \cup {NoneV, IntV, ListV}

-----------------------------------------------------------------------------
(* Countries.get_by_former_name and Countries.get_former_names_info *)

\* Variant of FormerGuard that turns away None only.
FormerGuardNoneOnly(former_name) == former_name.t = "none"

\* not isinstance(former_name, str) or not former_name
FormerGuard(former_name) == former_name.t # "str" \/ former_name.s = <<>>

\* self._former_names_data.get(former_name) is a non-empty dict.
InFormerNamesData(former_name) ==
    former_name.t = "str" /\ former_name.s \in DOMAIN FormerNamesData

\* Variant of ScanMatches whose containment test keeps the letter case.
ScanMatchesCaseSensitive(former_name, country_name) ==
    \/ Contains(country_name, former_name)
    \/ StartsWith(StrLower(country_name), StrLower(former_name))

\* The test of the scan: former_name.lower() in country_name.lower() or
\* country_name.lower().startswith(former_name.lower()).
ScanMatches(former_name, country_name) ==
    \/ Contains(StrLower(country_name), StrLower(former_name))
    \/ StartsWith(StrLower(country_name), StrLower(former_name))

\* Variant of GetCurrentCountryFromFormerCodes that, for codes the mapping
\* table does not know, answers with the first current record.
GetCurrentCountryOrFirst(alpha_2, alpha_3) ==
    IF <<alpha_2, alpha_3>> \in DOMAIN CodeMappings
    THEN Find(<<Criterion("alpha_2", Str(CodeMappings[<<alpha_2, alpha_3>>][1]))>>)
    ELSE IF namespace_records # <<>> THEN Ret(RecRef(1)) ELSE Ret(None)

\* _get_current_country_from_former_codes(alpha_2, alpha_3)
GetCurrentCountryFromFormerCodes(alpha_2, alpha_3) ==
    IF <<alpha_2, alpha_3>> \in DOMAIN CodeMappings
    THEN Find(<<Criterion("alpha_2", Str(CodeMappings[<<alpha_2, alpha_3>>][1]))>>)
    ELSE Ret(None)

\* The loop of get_by_former_name over the items i..Len(items) of a
\* FormerCountries("3166-3"): the first item whose name matches and whose
\* codes lead to a current record decides; former_name.lower() raises
\* AttributeError when former_name is no string.
RECURSIVE ScanFormer(_, _, _)
ScanFormer(items, former_name, i) ==
    IF i > Len(items) THEN Ret(None)
    ELSE IF former_name.t # "str" THEN Raise("AttributeError")
    ELSE LET country_name == DictGet(items[i], "name", <<>>)
         IN  IF ScanMatches(former_name.s, country_name)
             THEN LET res == GetCurrentCountryFromFormerCodes(
                                 DictGet(items[i], "alpha_2", <<>>),
                                 DictGet(items[i], "alpha_3", <<>>))
                  IN  IF Truthy(res) THEN res
                      ELSE ScanFormer(items, former_name, i + 1)
             ELSE ScanFormer(items, former_name, i + 1)

\* Variant of TableFirst in which the scan comes before the table.
TableAfterScan(former_name, scanned) ==
    IF Truthy(scanned) \/ ~InFormerNamesData(former_name) THEN scanned
    ELSE Find(<<Criterion("alpha_2", FormerNamesData[former_name.s]["alpha_2"])>>)

\* The order of the two sources of get_by_former_name: a key of
\* _former_names_data is answered by find(alpha_2=<its alpha_2>) and the scan,
\* whose outcome is scanned, is only for the other names.
TableFirst(former_name, scanned) ==
    IF InFormerNamesData(former_name)
    THEN Find(<<Criterion("alpha_2", FormerNamesData[former_name.s]["alpha_2"])>>)
    ELSE scanned

\* get_by_former_name(former_name); dict.get raises TypeError for an
\* unhashable key.
GetByFormerName(former_name) ==
    IF FormerGuard(former_name) THEN Ret(None)
    ELSE IF ~Hashable(former_name) THEN Raise("TypeError")
    ELSE TableFirst(former_name, ScanFormer(former, former_name, 1))

\* The dict get_former_names_info builds for the item fc of iso_3166-3.json;
\* current_country.name raises AttributeError on a record without a name.
FormerInfo(fc) ==
    LET codes == <<DictGet(fc, "alpha_2", <<>>), DictGet(fc, "alpha_3", <<>>)>>
        current_country ==
            IF codes \in DOMAIN CodeMappings
            THEN Find(<<Criterion("alpha_2", Str(CodeMappings[codes][1]))>>)
            ELSE Ret(None)
        StrOrNone(f) == IF f \in DOMAIN fc THEN Str(fc[f]) ELSE NoneV
    IN  IF Truthy(current_country)
           /\ ~HasAttr(namespace_records[current_country.val.ref], "name")
        THEN Raise("AttributeError")
        ELSE Ret([t |-> "info",
                  map |-> [f \in {"alpha_2", "alpha_3", "alpha_4", "current_name",
                                  "change_date", "comment"} |->
                    CASE f = "alpha_2" -> StrOrNone("alpha_2")
                      [] f = "alpha_3" -> StrOrNone("alpha_3")
                      [] f = "alpha_4" -> StrOrNone("alpha_4")
                      [] f = "current_name" ->
                            IF Truthy(current_country)
                            THEN GetAttr(namespace_records[current_country.val.ref], "name")
                            ELSE NoneV
                      [] f = "change_date" -> StrOrNone("withdrawal_date")
                      [] f = "comment" ->
                            Str(Txt("Former country from ISO 3166-3: ")
                                \o DictGet(fc, "name", <<>>))]])

\* The loop of get_former_names_info: the first item whose name matches
\* decides.
RECURSIVE ScanFormerInfo(_, _, _)
ScanFormerInfo(items, former_name, i) ==
    IF i > Len(items) THEN Ret(None)
    ELSE IF former_name.t # "str" THEN Raise("AttributeError")
    ELSE IF ScanMatches(former_name.s, DictGet(items[i], "name", <<>>))
         THEN FormerInfo(items[i])
         ELSE ScanFormerInfo(items, former_name, i + 1)

\* get_former_names_info(former_name)
GetFormerNamesInfo(former_name) ==
    IF FormerGuard(former_name) THEN Ret(None)
    ELSE IF ~Hashable(former_name) THEN Raise("TypeError")
    ELSE IF InFormerNamesData(former_name)
         THEN Ret([t |-> "info", map |-> FormerNamesData[former_name.s]])
         ELSE ScanFormerInfo(former, former_name, 1)

-----------------------------------------------------------------------------
(* Countries.former_names *)

\* The characters str.strip() removes: space, tab, line feed, vertical tab,
\* form feed, carriage return.
Whitespace == {32, 9, 10, 11, 12, 13}

RECURSIVE LStrip(_)
LStrip(s) == IF s # <<>> /\ s[1] \in Whitespace THEN LStrip(Tail(s)) ELSE s

RECURSIVE RStrip(_)
RStrip(s) ==
    IF s # <<>> /\ s[Len(s)] \in Whitespace THEN RStrip(SubSeq(s, 1, Len(s) - 1)) ELSE s

\* s.strip()
Strip(s) == RStrip(LStrip(s))

\* s.split(",")[0]: what stands before the first comma.
RECURSIVE BeforeComma(_)
BeforeComma(s) ==
    IF s = <<>> \/ s[1] = 44 THEN <<>> ELSE <<s[1]>> \o BeforeComma(Tail(s))

\* s.replace(old, ""), old not empty: every occurrence goes, left to right.
RECURSIVE Remove(_, _)
Remove(s, old) ==
    IF Len(s) < Len(old) THEN s
    ELSE IF SubSeq(s, 1, Len(old)) = old THEN Remove(SubSeq(s, Len(old) + 1, Len(s)), old)
    ELSE <<s[1]>> \o Remove(Tail(s), old)

\* main_name of former_names for one country_name.
MainName(country_name) ==
    Strip(Remove(Strip(Remove(Strip(BeforeComma(country_name)),
                              Txt("Socialist Republic of the Union of"))),
                 Txt("Republic of")))

\* x in names, names being a list of strings.
InList(x, names) == \E n \in DOMAIN names : names[n] = x

\* Variant of FormerNamesFrom that appends a main name whether or not the
\* list holds it already.
RECURSIVE FormerNamesFromAll(_, _, _)
FormerNamesFromAll(items, i, names) ==
    IF i > Len(items) THEN names
    ELSE LET main_name == MainName(DictGet(items[i], "name", <<>>))
         IN  FormerNamesFromAll(items, i + 1,
                 IF main_name # <<>> /\ Len(main_name) > 3
                 THEN Append(names, main_name) ELSE names)

\* The loop of former_names over the items i..Len(items).
RECURSIVE FormerNamesFrom(_, _, _)
FormerNamesFrom(items, i, names) ==
    IF i > Len(items) THEN names
    ELSE LET main_name == MainName(DictGet(items[i], "name", <<>>))
         IN  FormerNamesFrom(items, i + 1,
                 IF main_name # <<>> /\ ~InList(main_name, names) /\ Len(main_name) > 3
                 THEN Append(names, main_name) ELSE names)

\* sorted(names): an element goes after every element not greater than it.
RECURSIVE InsertStr(_, _)
InsertStr(sorted, x) ==
    IF sorted = <<>> THEN <<x>>
    ELSE IF StrLess(x, sorted[1]) THEN <<x>> \o sorted
    ELSE <<sorted[1]>> \o InsertStr(Tail(sorted), x)

RECURSIVE SortedStrs(_)
SortedStrs(names) ==
    IF names = <<>> THEN <<>>
    ELSE InsertStr(SortedStrs(SubSeq(names, 1, Len(names) - 1)), names[Len(names)])

\* former_names: the keys of _former_names_data, then the main names of the
\* items of a FormerCountries("3166-3"), sorted.
FormerNames ==
    LET keys == CHOOSE q \in [1..Cardinality(DOMAIN FormerNamesData) -> DOMAIN FormerNamesData] :
                    \A i, j \in DOMAIN q : q[i] = q[j] => i = j
    IN  Ret([t |-> "strs", items |-> SortedStrs(FormerNamesFrom(former, 1, keys))])

-----------------------------------------------------------------------------
(* Countries.name: the generator of (code, name) pairs *)

\* Variant of NameFromIndex in which the dataset hands out one stream: an
\* access gives the generator the caller already holds, as far as it has
\* been consumed.
NameFromIndexShared(index) ==
    [t |-> "generator", index |-> index,
     pos |-> IF held.acc.op = "name" THEN held.pos ELSE 0]

\* _name_from_index(index): a new generator over self.data that has produced
\* pos = 0 of its elements.
NameFromIndex(index) == [t |-> "generator", index |-> index, pos |-> 0]

\* What the generator produces for one element of self.data:
\* (element[index], element["name"]), KeyError when a key is missing.
NamePair(element, index) ==
    IF index \in DOMAIN element /\ "name" \in DOMAIN element
    THEN Ret([t |-> "pair", code |-> element[index], name |-> element["name"]])
    ELSE Raise("KeyError")

\* countries.name
AccessName ==
    /\ pc = "idle"
    /\ call' = MakeCall("name", <<>>, "alpha_2")
    /\ result' = Ret(NameFromIndex("alpha_2"))
    /\ pc' = "done"
    /\ UNCHANGED <<data, namespace_records, index_alpha_2, index_alpha_3,
                   index_name, index_numeric, former, loads, held>>

\* The caller keeps the generator an access to name returned.
KeepGenerator ==
    /\ pc = "done"
    /\ call.op = "name"
    /\ held = NoHeld
    /\ held' = [acc |-> call, index |-> result.val.index, pos |-> result.val.pos]
    /\ pc' = "idle"
    /\ call' = NoCall
    /\ result' = NoResult
    /\ UNCHANGED <<data, namespace_records, index_alpha_2, index_alpha_3,
                   index_name, index_numeric, former, loads>>

\* next(generator) on the generator the caller holds: the pair of the next
\* element of self.data, StopIteration after the last one; a generator that
\* has raised is finished.
NextOfGenerator ==
    /\ pc = "idle"
    /\ held.acc.op = "name"
    /\ call' = MakeCall("next", <<>>, held.index)
    /\ IF held.pos < Len(data)
       THEN LET pair == NamePair(data[held.pos + 1], held.index)
            IN  /\ result' = pair
                /\ held' = [held EXCEPT !.pos = IF pair.kind = "raise"
                                                THEN Len(data) ELSE @ + 1]
       ELSE /\ result' = Raise("StopIteration")
            /\ held' = held
    /\ pc' = "done"
    /\ UNCHANGED <<data, namespace_records, index_alpha_2, index_alpha_3,
                   index_name, index_numeric, former, loads>>

-----------------------------------------------------------------------------
(* The countries dataset in its process *)

MaxLoads == 3

\* FormerCountries("3166-3"): ISO.__init__ opens and parses iso_3166-3.json
\* once more.
LoadFormerCountries == [loads EXCEPT !["3166-3"] = @ + 1]

\* get_by_former_name and get_former_names_info come to the line that
\* constructs FormerCountries("3166-3").
ReachesScan(former_name) ==
    ~FormerGuard(former_name) /\ Hashable(former_name) /\ ~InFormerNamesData(former_name)

\* loads after get_by_former_name or get_former_names_info.
LoadsAfterLookup(former_name) ==
    IF ReachesScan(former_name) THEN LoadFormerCountries ELSE loads

\* The state after the module is imported, seen from countries: its file and
\* the former-countries file are among the eight loaded once each.
InitFormer ==
    /\ data \in CountryDatasets
    /\ namespace_records = [i \in DOMAIN data |-> ISONamespaceRecord(data[i])]
    /\ index_alpha_2 = CreateIndex(namespace_records, "alpha_2")
    /\ index_alpha_3 = CreateIndex(namespace_records, "alpha_3")
    /\ index_name = CreateIndex(namespace_records, "name")
    /\ index_numeric = CreateIndex(namespace_records, "numeric")
    /\ pc = "idle"
    /\ call = NoCall
    /\ result = NoResult
    /\ former \in FormerFiles
    /\ loads = [k \in ModuleKeys |-> 1]
    /\ held = NoHeld

\* The call countries.<op>(former_name).
FormerCall(op, former_name) == MakeCall(op, <<Criterion("former_name", former_name)>>, "")

CallGetByFormerName ==
    /\ pc = "idle"
    /\ \E former_name \in FormerArgs :
        /\ ReachesScan(former_name) => loads["3166-3"] < MaxLoads
        /\ call' = FormerCall("get_by_former_name", former_name)
        /\ result' = GetByFormerName(former_name)
        /\ loads' = LoadsAfterLookup(former_name)
    /\ pc' = "done"
    /\ UNCHANGED <<data, namespace_records, index_alpha_2, index_alpha_3,
                   index_name, index_numeric, former, held>>

CallGetFormerNamesInfo ==
    /\ pc = "idle"
    /\ \E former_name \in FormerArgs :
        /\ ReachesScan(former_name) => loads["3166-3"] < MaxLoads
        /\ call' = FormerCall("get_former_names_info", former_name)
        /\ result' = GetFormerNamesInfo(former_name)
        /\ loads' = LoadsAfterLookup(former_name)
    /\ pc' = "done"
    /\ UNCHANGED <<data, namespace_records, index_alpha_2, index_alpha_3,
                   index_name, index_numeric, former, held>>

CallFormerNames ==
    /\ pc = "idle"
    /\ loads["3166-3"] < MaxLoads
    /\ call' = MakeCall("former_names", <<>>, "")
    /\ result' = FormerNames
    /\ loads' = LoadFormerCountries
    /\ pc' = "done"
    /\ UNCHANGED <<data, namespace_records, index_alpha_2, index_alpha_3,
                   index_name, index_numeric, former, held>>

NextFormer ==
    \/ CallGetByFormerName \/ CallGetFormerNamesInfo \/ CallFormerNames
    \/ SeqGet \/ SeqFind \/ SeqSearch \/ SeqSortedView \/ SeqByDict \/ AccessName
    \/ Return

\* The countries dataset of a process, with every query operation.
SpecFormer == InitFormer /\ [][NextFormer]_vars

\* The argument of the former-name lookup that has just returned.
FormerArg == call.kwargs[1].v

\* C13: after load and after any sequence of query operations, the records
\* that items exposes equal the loaded data element by element, in the same
\* order, and len(dataset) is the number of loaded records.
C13_ItemsAsLoaded ==
    /\ Len(namespace_records) = Len(data)
    /\ \A i \in DOMAIN data : namespace_records[i].dict = data[i]

\* A sorted view of a dataset that is not in alpha_2 order has been read
\* after two former-countries loads.
C13_Witness ==
    /\ Called("sorted_by_index") /\ call.field = "alpha_2"
    /\ Len(data) > 1 /\ StrLess(data[2]["alpha_2"], data[1]["alpha_2"])
    /\ loads["3166-3"] = 3

\* C16: the backing data of a dataset key is loaded at most once per process,
\* whatever operations are called on the loaded datasets.
C16_LoadedAtMostOnce == \A k \in ModuleKeys : loads[k] <= 1

\* C16 is refuted by a lookup that reaches the scan: the former-countries
\* file has then been loaded twice.
C16_SecondLoad ==
    /\ Called("get_by_former_name") /\ FormerArg = Str(Txt("Burma"))
    /\ loads["3166-3"] = 2

\* former_name is malformed: None, a value that is no string, or "".
MalformedName(v) == v.t # "str" \/ v.s = <<>>

\* The string s matches no former name: it is no key of the rename table and
\* no name of the former-countries file contains it, letter case aside.
Unmatched(s) ==
    /\ s \notin DOMAIN FormerNamesData
    /\ \A i \in DOMAIN former :
          ~Contains(StrLower(DictGet(former[i], "name", <<>>)), StrLower(s))

\* C17: get_by_former_name and get_former_names_info never raise for
\* malformed or unmatched input: for None, a value that is no string, the
\* empty string, or a string matching no former name, each returns None.
C17_FormerLookupsReturnAbsence ==
    ((Called("get_by_former_name") \/ Called("get_former_names_info"))
     /\ (MalformedName(FormerArg) \/ Unmatched(FormerArg.s)))
        => result = Ret(None)

\* get_former_names_info has been called with 123 on a former-countries file
\* that has items.
C17_Witness ==
    /\ Called("get_former_names_info") /\ FormerArg = IntV
    /\ former # <<>>

\* C18: a key of the rename table is resolved through the table alone:
\* get_by_former_name returns what find(alpha_2=<the entry's alpha_2>)
\* returns, whatever the former-countries file holds, and loads no
\* former-countries dataset, the scan being for the other names only.
C18_TableFirst ==
    [][(call'.op = "get_by_former_name" /\ pc' = "done" /\ call'.kwargs[1].v.t = "str"
        /\ call'.kwargs[1].v.s \in DOMAIN FormerNamesData)
       => /\ result' = Find(<<Criterion("alpha_2",
                                FormerNamesData[call'.kwargs[1].v.s]["alpha_2"])>>)
          /\ loads' = loads]_vars

\* "Swaziland" has been looked up and has given the record of SZ, with a
\* record of MM among the countries and, in the former-countries file, an
\* item with Burma's codes whose name starts with "Swaziland".
C18_Witness ==
    /\ Called("get_by_former_name") /\ FormerArg = Str(Txt("Swaziland"))
    /\ result.kind = "return" /\ result.val.t = "record"
    /\ Rec(result.val.ref)["alpha_2"] = Txt("SZ")
    /\ \E i \in DOMAIN data : data[i]["alpha_2"] = Txt("MM")
    /\ \E i \in DOMAIN former : former[i]["name"] = Txt("Swaziland, Kingdom of")

\* get_by_former_name(s) gives a current record.
Resolves(s) ==
    LET r == GetByFormerName(Str(s)) IN r.kind = "return" /\ r.val.t = "record"

\* s written in upper case, as str.upper does for ASCII letters.
StrUpper(s) == [i \in DOMAIN s |-> IF s[i] \in 97..122 THEN s[i] - 32 ELSE s[i]]

\* s is all in lower case or all in upper case.
OneCase(s) == s = StrLower(s) \/ s = StrUpper(s)

\* C19: get_by_former_name is case-sensitive: for every name that resolves
\* to a current record, a variant of it that differs only in letter case,
\* all in lower case or all in upper case, returns None.
C19_CaseSensitive ==
    (Called("get_by_former_name") /\ FormerArg.t = "str"
     /\ \E n \in FormerNameStrs :
            /\ Resolves(n)
            /\ n # FormerArg.s
            /\ StrLower(n) = StrLower(FormerArg.s)
            /\ OneCase(FormerArg.s))
        => result = Ret(None)

\* C20: get_by_former_name supports no partial match: a string that is only
\* a proper prefix or a proper substring of a former name that resolves
\* returns None.
C20_NoPartialMatch ==
    (Called("get_by_former_name") /\ FormerArg.t = "str" /\ FormerArg.s # <<>>
     /\ \E n \in FormerNameStrs :
            /\ Resolves(n)
            /\ n # FormerArg.s
            /\ Contains(n, FormerArg.s))
        => result = Ret(None)

\* get_former_names_info has returned for a string that reached the scan.
InfoScanned ==
    /\ Called("get_former_names_info")
    /\ FormerArg.t = "str" /\ FormerArg.s # <<>>
    /\ FormerArg.s \notin DOMAIN FormerNamesData

\* The names of the items of the former-countries file.
FormerItemNames == { DictGet(former[i], "name", <<>>) : i \in DOMAIN former }

LookupScanned ==
    /\ Called("get_by_former_name")
    /\ FormerArg.t = "str" /\ FormerArg.s # <<>>
    /\ FormerArg.s \notin DOMAIN FormerNamesData

\* The items of the former-countries file whose name holds the string s,
\* letter case aside.
MatchedItems(s) ==
    { i \in DOMAIN former :
        Contains(StrLower(DictGet(former[i], "name", <<>>)), StrLower(s)) }

\* The pair of former codes of item i of the former-countries file.
FormerCodes(i) == <<former[i]["alpha_2"], former[i]["alpha_3"]>>

\* C22: for a name not in the rename table, get_by_former_name returns a
\* record only if a matching item of the former-countries file has its
\* (alpha_2, alpha_3) pair as a key of the translation table, and the record
\* is then the current record whose alpha_2 is the mapped current code; when
\* no matching item has a mapping (dissolved or split) it returns None.
C22_OnlyThroughMapping ==
    LookupScanned =>
        /\ ReturnedRecord =>
              \E i \in MatchedItems(FormerArg.s) :
                  /\ FormerCodes(i) \in DOMAIN CodeMappings
                  /\ Rec(result.val.ref)["alpha_2"] = CodeMappings[FormerCodes(i)][1]
        /\ (\A i \in MatchedItems(FormerArg.s) : FormerCodes(i) \notin DOMAIN CodeMappings)
              => result = Ret(None)

\* "Czechoslovakia" has been looked up in a file that holds it, with current
\* countries loaded, and nothing has come back.
C22_Witness ==
    /\ LookupScanned /\ FormerArg.s = Txt("Czechoslovakia")
    /\ MatchedItems(FormerArg.s) # {}
    /\ data # <<>>
    /\ result = Ret(None)

\* What get_former_names_info and get_by_former_name give, in this state,
\* for the argument of the lookup that has just returned.
InfoOfArg == GetFormerNamesInfo(FormerArg)
LookupOfArg == GetByFormerName(FormerArg)

\* C23: get_former_names_info uses the matching of get_by_former_name:
\* whenever get_by_former_name(name) returns a current record R,
\* get_former_names_info(name) returns info whose current_name is R's name;
\* and get_former_names_info(name) is None only if get_by_former_name(name)
\* is None.
C23_InfoFollowsLookup ==
    /\ (Called("get_by_former_name") /\ ReturnedRecord) =>
          /\ InfoOfArg.kind = "return" /\ InfoOfArg.val.t = "info"
          /\ InfoOfArg.val.map["current_name"] = Str(Rec(result.val.ref)["name"])
    /\ (Called("get_former_names_info") /\ result = Ret(None)) =>
          LookupOfArg = Ret(None)

\* The string s names a former country that was dissolved or split: it is
\* no key of the rename table, it matches an item of the former-countries
\* file, and no item it matches has its codes in the translation table.
Dissolved(s) ==
    /\ s # <<>> /\ s \notin DOMAIN FormerNamesData
    /\ MatchedItems(s) # {}
    /\ \A i \in MatchedItems(s) : FormerCodes(i) \notin DOMAIN CodeMappings

\* C24: for a former country that was dissolved or split,
\* get_former_names_info returns an info whose alpha_2, alpha_3 and
\* current_name are all None.
C24_DissolvedInfoHasNoCodes ==
    (Called("get_former_names_info") /\ FormerArg.t = "str" /\ Dissolved(FormerArg.s))
        => /\ result.kind = "return" /\ result.val.t = "info"
           /\ result.val.map["alpha_2"] = NoneV
           /\ result.val.map["alpha_3"] = NoneV
           /\ result.val.map["current_name"] = NoneV

\* The list former_names has returned.
NamesListed == result.val.items

\* The list l of strings is in ascending order and holds no string twice.
Ascending(l) == \A i, j \in DOMAIN l : i < j => StrLess(l[i], l[j])

\* The cleaned names of the items of the former-countries file: the first
\* comma-delimited segment with the ceremonial phrases stripped.
CleanedNames == { MainName(n) : n \in FormerItemNames }

\* C25 as stated: former_names returns a list that is sorted ascending, has
\* no duplicates, holds every key of the rename table and holds the cleaned
\* name of every item of the former-countries file.
C25_EveryCleanedName ==
    Called("former_names") =>
        /\ result.kind = "return" /\ Ascending(NamesListed)
        /\ \A k \in DOMAIN FormerNamesData : InList(k, NamesListed)
        /\ \A n \in CleanedNames : InList(n, NamesListed)

\* C25 as the code has it: former_names returns a list that is sorted
\* ascending, has no duplicates, holds every key of the rename table and
\* holds the cleaned name of every item of the former-countries file whose
\* cleaned name is longer than three characters.
C25_CleanedNamesOverThree ==
    Called("former_names") =>
        /\ result.kind = "return" /\ Ascending(NamesListed)
        /\ \A k \in DOMAIN FormerNamesData : InList(k, NamesListed)
        /\ \A n \in CleanedNames : Len(n) > 3 => InList(n, NamesListed)

\* former_names has been read on a file that lists Zaire before an item
\* whose cleaned name is the table's key "Swaziland", and has given
\* Swaziland, Zaire.
C25_Witness ==
    /\ Called("former_names")
    /\ Len(former) = 2
    /\ former[1]["name"] = Txt("Zaire, Republic of")
    /\ former[2]["name"] = Txt("Swaziland, Kingdom of")
    /\ NamesListed = <<Txt("Swaziland"), Txt("Zaire")>>

\* get_former_names_info(n) gives an info, in this state.
HasInfo(n) ==
    LET r == GetFormerNamesInfo(Str(n)) IN r.kind = "return" /\ r.val.t = "info"

\* C26: every name listed by former_names can be looked up: for each n in
\* former_names, get_former_names_info(n) returns an info and not None.
C26_ListedNamesHaveInfo ==
    Called("former_names") =>
        /\ result.kind = "return"
        /\ \A k \in DOMAIN NamesListed : HasInfo(NamesListed[k])

-----------------------------------------------------------------------------
(* One record under a sequence of writes and attribute reads *)

\* The keys a caller writes and the names it reads as attributes: the
\* fields of the data and "keys", which a dict has as a method.
RecordKeys == DataFields \cup {"keys"}

\* A dataset of one record, loaded.
InitRecord == Init /\ Len(data) = 1

\* record[key] = "B"
SetItemOfRecord ==
    /\ pc = "idle"
    /\ \E key \in RecordKeys : WriteRecord(1, SetItem(namespace_records[1], key, Written))

\* record.<name> = "B"
SetAttrOfRecord ==
    /\ pc = "idle"
    /\ \E name \in RecordKeys : WriteRecord(1, SetAttr(namespace_records[1], name, Written))

\* del record[key], key being one the record has.
DelItemOfRecord ==
    /\ pc = "idle"
    /\ \E key \in DOMAIN namespace_records[1].dict :
        WriteRecord(1, DelItem(namespace_records[1], key))

\* record.update({key: "B"})
UpdateOfRecord ==
    /\ pc = "idle"
    /\ \E key \in RecordKeys :
        WriteRecord(1, Update(namespace_records[1], [k \in {key} |-> Written]))

\* record.clear()
ClearOfRecord ==
    /\ pc = "idle"
    /\ WriteRecord(1, Clear(namespace_records[1]))

\* record.<name>: the attribute when the record has it, else the
\* AttributeError of __getattr__.
GetAttrOfRecord ==
    /\ pc = "idle"
    /\ \E name \in RecordKeys :
        /\ call' = MakeCall("getattr", <<>>, name)
        /\ result' = IF HasAttr(namespace_records[1], name)
                     THEN Ret(GetAttr(namespace_records[1], name))
                     ELSE Raise("AttributeError")
    /\ pc' = "done"
    /\ UNCHANGED dataset

NextRecord ==
    \/ SetItemOfRecord \/ SetAttrOfRecord \/ DelItemOfRecord \/ UpdateOfRecord
    \/ ClearOfRecord \/ GetAttrOfRecord \/ Return

\* A record and a caller that writes to it and reads its attributes.
SpecRecord == InitRecord /\ [][NextRecord]_vars

\* C29: a record keeps its dictionary view and its dot-notation view in
\* sync: after construction and after any sequence of item assignment,
\* attribute assignment, item deletion, update and clear, for every key k of
\* the record's mapping record.k returns record[k], and for every name not
\* in the mapping the attribute access raises AttributeError.
C29_ViewsInSync ==
    Called("getattr") =>
        IF call.field \in DOMAIN Rec(1)
        THEN result = Ret(Str(Rec(1)[call.field]))
        ELSE result = Raise("AttributeError")

-----------------------------------------------------------------------------
(* get and find with several criteria *)

\* C28: get called with several criteria uses the first criterion in call
\* order and ignores the others: its result is the result of get called with
\* that first criterion alone.
C28_GetFirstCriterionOnly ==
    (Called("get") /\ Len(call.kwargs) > 1)
        => result = Get(<<call.kwargs[1]>>)

\* get has been called with two criteria and has returned a record that the
\* second criterion does not match.
C28_Witness ==
    /\ Called("get") /\ Len(call.kwargs) = 2
    /\ ReturnedRecord
    /\ ~GetMatchesEqual(Rec(result.val.ref), call.kwargs[2].k, call.kwargs[2].v.s)
    /\ call.kwargs[2].v.t = "str"

\* Record i of the dataset equals the query value on every criterion of
\* the call.
SatisfiesAll(i) ==
    \A c \in DOMAIN call.kwargs :
        /\ call.kwargs[c].v.t = "str"
        /\ FieldEquals(i, call.kwargs[c].k, call.kwargs[c].v.s)

\* C30: find called with several criteria performs an exact match on all of
\* them: it returns a record only if that record equals the query value on
\* every criterion field, returns None when no record satisfies all
\* criteria, and its result does not depend on the order of the criteria.
C30_FindEveryCriterion ==
    (Called("find") /\ Len(call.kwargs) = 2) =>
        /\ ReturnedRecord => SatisfiesAll(result.val.ref)
        /\ (\A i \in DOMAIN data : ~SatisfiesAll(i)) => result = Ret(None)
        /\ result = Find(<<call.kwargs[2], call.kwargs[1]>>)

-----------------------------------------------------------------------------
(* A caller that consumes the generators of name *)

NextName == AccessName \/ KeepGenerator \/ NextOfGenerator \/ Return

\* The countries dataset of a process whose caller reads name and consumes
\* the generator it keeps.
SpecName == InitFormer /\ [][NextName]_vars

\* One (alpha_2, name) pair per record of the dataset, in dataset order.
PairsOfData ==
    [i \in DOMAIN data |->
        [t |-> "pair", code |-> data[i]["alpha_2"], name |-> data[i]["name"]]]

\* What a generator has still to produce.
Remaining(gen) ==
    [i \in 1..(Len(data) - gen.pos) |-> NamePair(data[gen.pos + i], gen.index).val]

\* C27: the name accessor is restartable: every access to name yields a new
\* finite sequence of one (code, name) pair per record of the dataset, in
\* dataset order; consuming the generator of one access, which produces
\* these pairs one by one and then stops, does not shorten or change the
\* sequence a later access gives.
C27_NameRestartable ==
    /\ Called("name") =>
          /\ result.kind = "return" /\ result.val.t = "generator"
          /\ Remaining(result.val) = PairsOfData
    /\ Called("next") =>
          IF result.kind = "return"
          THEN result.val = PairsOfData[held.pos]
          ELSE result = Raise("StopIteration") /\ held.pos = Len(data)

\* name has been read again by a caller that holds the generator of an
\* earlier access and has consumed both of its pairs.
C27_Witness ==
    /\ Called("name")
    /\ held.acc.op = "name" /\ held.pos = Len(data) /\ Len(data) = 2

-----------------------------------------------------------------------------
(* ISO.__init__ for a key with or without a resource file *)

\* The keys a caller constructs a dataset for: those of the package's files
\* and one that has no file.
KeysTried == ModuleKeys \cup {"invalid-key"}

\* Variant of OpenResource in which a missing file reads as an empty dataset.
OpenResourceOrEmpty(iso_key, items) ==
    IF iso_key \in ModuleKeys THEN Ret([t |-> "file", items |-> items])
    ELSE Ret([t |-> "file", items |-> <<>>])

\* resource_file.open(...) and json.load(...)[iso_key]: the items of the file
\* iso_<iso_key>.json, or FileNotFoundError when the package has no such file.
OpenResource(iso_key, items) ==
    IF iso_key \in ModuleKeys THEN Ret([t |-> "file", items |-> items])
    ELSE Raise("FileNotFoundError")

\* No dataset object yet.
InitLoad ==
    /\ data = <<>>
    /\ namespace_records = <<>>
    /\ index_alpha_2 = EmptyDict
    /\ index_alpha_3 = EmptyDict
    /\ index_name = EmptyDict
    /\ index_numeric = EmptyDict
    /\ pc = "start"
    /\ call = NoCall
    /\ result = NoResult
    /\ InitProcess

\* ISO(iso_key), items being what the file of a key holds: the exception of
\* open leaves __init__ at once, and the caller has no object.
Construct ==
    /\ pc = "start"
    /\ \E iso_key \in KeysTried, items \in Datasets :
        LET opened == OpenResource(iso_key, items)
        IN  /\ call' = MakeCall("__init__", <<>>, iso_key)
            /\ IF opened.kind = "raise"
               THEN /\ result' = opened
                    /\ pc' = "failed"
                    /\ UNCHANGED <<data, namespace_records, index_alpha_2,
                                   index_alpha_3, index_name, index_numeric, loads>>
               ELSE /\ data' = opened.val.items
                    /\ namespace_records' =
                           [i \in DOMAIN opened.val.items |->
                               ISONamespaceRecord(opened.val.items[i])]
                    /\ index_alpha_2' = CreateIndex(namespace_records', "alpha_2")
                    /\ index_alpha_3' = CreateIndex(namespace_records', "alpha_3")
                    /\ index_name' = CreateIndex(namespace_records', "name")
                    /\ index_numeric' = CreateIndex(namespace_records', "numeric")
                    /\ loads' = [k \in DOMAIN loads |->
                                    IF k = iso_key THEN loads[k] + 1 ELSE loads[k]]
                    /\ result' = Ret([t |-> "dataset", iso_key |-> iso_key])
                    /\ pc' = "done"
    /\ UNCHANGED <<former, held>>

\* The construction of one dataset.
SpecLoad == InitLoad /\ [][Construct]_vars

\* ISO(iso_key) has been called with a key that has no resource file.
ConstructedWithoutFile == call.op = "__init__" /\ call.field \notin ModuleKeys

=============================================================================
